---- MODULE Spec2Model ----
(***************************************************************************)
(* Embedding extraction through libllama_shim (rm_llama_embed_text) and    *)
(* the handle lifecycle of the shim and of the legacy binding.             *)
(*                                                                         *)
(* The inference engine (llama.cpp) is an external collaborator: only its  *)
(* C API is declared in llama_min.h.  It is modelled here as a small       *)
(* deterministic stub per model/context configuration, plus the outcomes   *)
(* the caller cannot control (malloc failing, llama_decode failing).       *)
(* Floating point values are modelled as exact rationals <<num, den>>.     *)
(***************************************************************************)
EXTENDS Integers, Sequences, FiniteSets, TLC

\* ------------------------------------------------------------------ bounds

\* Longest text (in bytes) a caller passes.
MaxTextLen == 2

\* The largest absolute value of an element of a vector given to the
\* normalizer on its own.
MaxAbs == 4

\* The longest prompt the legacy binding's params are let grow to, and the
\* context length its embedding calls run with.
MaxPrompt == 3
BindCtx == 6

\* Tokens the "wide" tokenizer stub emits per byte of text.
WideFanout == 9

\* Token capacity (n_ctx) of every context.
NCtx == 24

\* ------------------------------------------------------- program constants

ErrNullArgument == -1
ErrOutputBufferTooSmall == -2
ErrVocabularyUnavailable == -3
ErrEmptyOrFailedTokenization == -5
\* Mutant: a failed allocation reported with the tokenization code.
AllocationReportedAsTokenization == ErrEmptyOrFailedTokenization
ErrBufferAllocationFailed == -4
ErrEmbeddingsUnavailable == -6

\* n_tokens_max = text_len + 8, floored at 16.
TokenMargin == 8
TokenFloor == 16

\* normalize == 2 selects rm_l2_normalize.
NormalizeL2 == 2

LLAMA_POOLING_TYPE_UNSPECIFIED == -1
LLAMA_POOLING_TYPE_NONE == 0
LLAMA_POOLING_TYPE_MEAN == 1
LLAMA_ATTENTION_TYPE_UNSPECIFIED == -1
LLAMA_ATTENTION_TYPE_CAUSAL == 0
LLAMA_ATTENTION_TYPE_NON_CAUSAL == 1

\* ---------------------------------------------------------------- pointers

NULL == "NULL"

\* A NULL `const char *text` (no byte of a C string is negative here).
NullText == <<-1>>

\* A NULL `const float *` (an embedding of a usable model is never empty).
NullVec == <<>>

\* A float the callee never wrote (the caller's buffer before the call).
Unwritten == <<0, 0>>

\* ------------------------------------------------------- exact arithmetic

Abs(x) == IF x < 0 THEN -x ELSE x

RECURSIVE GCD(_, _)
GCD(a, b) == IF b = 0 THEN a ELSE GCD(b, a % b)

\* The rational n/d in lowest terms with a positive denominator.
Rat(n, d) ==
    LET g == GCD(Abs(n), Abs(d))
        s == IF d < 0 THEN -1 ELSE 1
    IN  IF n = 0 THEN <<0, 1>> ELSE <<s * (n \div g), s * (d \div g)>>

RMul(x, y) == Rat(x[1] * y[1], x[2] * y[2])

RAdd(x, y) == Rat(x[1] * y[2] + y[1] * x[2], x[2] * y[2])

RInv(x) == Rat(x[2], x[1])

RLeqZero(x) == x[1] <= 0

\* Integer square root (exact on the perfect squares the stub produces).
ISqrt(n) == CHOOSE r \in 0..n : r * r <= n /\ (r + 1) * (r + 1) > n

RSqrt(x) == Rat(ISqrt(x[1]), ISqrt(x[2]))

RECURSIVE SumSeq(_)
SumSeq(s) == IF s = <<>> THEN 0 ELSE s[1] + SumSeq(Tail(s))

Max(a, b) == IF a > b THEN a ELSE b

\* ------------------------------------------------------------- normalizer

\* rm_copy_f32: memcpy of n floats; n <= 0 writes nothing.
rm_copy_f32(dst, src, n) ==
    IF n <= 0 THEN dst
    ELSE [i \in 1..Len(dst) |-> IF i <= n THEN src[i] ELSE dst[i]]

RECURSIVE SumSquares(_, _)
SumSquares(src, n) ==
    IF n <= 0 THEN <<0, 1>>
    ELSE RAdd(SumSquares(src, n - 1), RMul(src[n], src[n]))

\* Mutant: the factor is 1/(sum of squares), the square root left out.
L2DividesBySum(dst, src, n) ==
    IF n <= 0 THEN dst
    ELSE LET sum == SumSquares(src, n)
         IN  IF RLeqZero(sum) THEN rm_copy_f32(dst, src, n)
             ELSE [i \in 1..Len(dst) |->
                      IF i <= n THEN RMul(src[i], RInv(sum)) ELSE dst[i]]

\* rm_l2_normalize: one factor 1/sqrt(sum of squares), identity copy when the
\* norm is not positive.
rm_l2_normalize(dst, src, n) ==
    IF n <= 0 THEN dst
    ELSE LET sum  == SumSquares(src, n)
             norm == RSqrt(sum)
         IN  IF RLeqZero(norm) THEN rm_copy_f32(dst, src, n)
             ELSE LET inv == RInv(norm)
                  IN  [i \in 1..Len(dst) |->
                          IF i <= n THEN RMul(src[i], inv) ELSE dst[i]]

\* ------------------------------------------------------------ engine stub
\* What the shim can observe of llama.cpp through llama_min.h.

\* The handles of the shim ("M", "c1", "c2") and of the legacy binding
\* ("B", "bc").
Models == {"M", "B"}
Ctxs == {"c1", "c2", "bc"}
ShimCtxs == {"c1", "c2"}
Parent(c) == IF c = "bc" THEN "B" ELSE "M"

\* A loaded model as the shim sees it: llama_model_n_embd, the vocabulary
\* llama_model_get_vocab returns ("none" is NULL), whether its contexts carry
\* an attention memory (llama_get_memory is NULL for a model without one) and
\* the pooling a context gets when none is requested.
ModelConfigs ==
    { [n_embd |-> 4, vocab |-> "byte", has_memory |-> TRUE,  pooling |-> LLAMA_POOLING_TYPE_NONE],
      [n_embd |-> 4, vocab |-> "byte", has_memory |-> FALSE, pooling |-> LLAMA_POOLING_TYPE_MEAN],
      [n_embd |-> 4, vocab |-> "wide", has_memory |-> TRUE,  pooling |-> LLAMA_POOLING_TYPE_MEAN],
      [n_embd |-> 4, vocab |-> "grow", has_memory |-> TRUE,  pooling |-> LLAMA_POOLING_TYPE_NONE],
      [n_embd |-> 4, vocab |-> "none", has_memory |-> TRUE,  pooling |-> LLAMA_POOLING_TYPE_NONE],
      [n_embd |-> 0, vocab |-> "byte", has_memory |-> TRUE,  pooling |-> LLAMA_POOLING_TYPE_NONE] }

NoModel == [n_embd |-> 0, vocab |-> "none", has_memory |-> FALSE, pooling |-> LLAMA_POOLING_TYPE_NONE]

\* The texts callers pass: the prefixes of one byte string whose even bytes
\* spell a special token.
TextByte(i) == IF i % 2 = 1 THEN 1 ELSE 2
Texts == { [i \in 1..k |-> TextByte(i)] : k \in 0..MaxTextLen }

strlen(text) == Len(text)

\* Tokens of one byte: a special token (id 2) when the byte spells one and
\* parse_special is set, else `fanout` copies of the byte's plain token.
Pieces(b, fanout, parse_special) ==
    IF parse_special /\ b = 2 THEN <<2>> ELSE [j \in 1..fanout |-> 10 + b]

RECURSIVE Flatten(_, _, _)
Flatten(text, fanout, parse_special) ==
    IF text = <<>> THEN <<>>
    ELSE Pieces(Head(text), fanout, parse_special)
             \o Flatten(Tail(text), fanout, parse_special)

\* The token sequence of a text: BOS (id 1) first when add_special is set.
TokensOf(vocab, text, add_special, parse_special) ==
    (IF add_special THEN <<1>> ELSE <<>>)
        \o Flatten(text, IF vocab = "wide" THEN WideFanout ELSE 1, parse_special)

\* llama_tokenize: the token count, or minus the capacity it needs when the
\* buffer is too small.  The "grow" stub asks for one more slot on every call.
llama_tokenize(vocab, text, n_tokens_max, add_special, parse_special) ==
    LET n == Len(TokensOf(vocab, text, add_special, parse_special))
    IN  IF vocab = "grow" THEN -(n_tokens_max + 1)
        ELSE IF n > n_tokens_max THEN -n
        ELSE n

\* The embeddings a forward pass leaves in a context, as a function of every
\* token the context's attention sees (its memory followed by the batch).
EmbTable ==
    << <<3, 4, 0, 0>>, <<0, 0, 0, 0>>, <<0, 5, 12, 0>>, <<-6, 0, 0, 8>>,
       <<1, 0, 0, 0>>, <<2, 2, 2, 2>>, <<0, 0, -7, 0>> >>

Digest(seen) == SumSeq(seen) + 2 * Len(seen)

AsFloats(v) == [i \in 1..Len(v) |-> <<v[i], 1>>]

PooledOf(seen) == AsFloats(EmbTable[(Digest(seen) % Len(EmbTable)) + 1])

RawOf(seen) == AsFloats(EmbTable[((Digest(seen) + 1) % Len(EmbTable)) + 1])

\* The codes llama_decode may fail with whatever the batch (abort callback,
\* compute failure, invalid batch), and the code for a full context.
DecodeFailures == {-1, 2}
DecodeSuccess == 0
DecodeNoSlot == 1

\* ------------------------------------------------------------------ state

VARIABLES
    mstate,     \* model handle -> "none" | "live" | "freed"
    mcfg,       \* model handle -> its configuration (ModelConfigs)
    cstate,     \* context handle -> "none" | "live" | "freed"
    ccfg,       \* context handle -> the llama_context_params it was made with
    cmem,       \* context handle -> tokens held in its attention memory
    cthr,       \* context handle -> its current thread settings
    cemb,       \* context handle -> the embeddings its last forward pass left
    nfree,      \* handle -> number of times the engine released it
    mparams,    \* model handle -> the llama_model_params it was loaded with
    ptr,        \* the shim caller's pointers: handle name -> handle or NULL
    bpc,        \* legacy binding: position in load / llama_binding_free_model
    bst,        \* legacy binding: the llama_binding_state fields
    pc,         \* caller thread -> position in rm_llama_embed_text
    args,       \* caller thread -> arguments of its call
    loc,        \* caller thread -> locals of its call
    heap,       \* caller thread -> token buffers malloc'ed in its call
    out,        \* caller thread -> the caller-owned output buffer
    ret,        \* caller thread -> return code of its call
    trace,      \* caller thread -> engine functions its call has invoked
    tokCalls,   \* caller thread -> <<capacity, result>> of its tokenizer calls
    snap,       \* caller thread -> its context's state when the call began
    failStep,   \* caller thread -> the step its call failed at, or "none"
    met,        \* caller thread -> contexts of the calls in flight during its call
    norm,       \* the normalizer on its own: its arguments and the buffer after it
    bind        \* legacy binding: params->prompt and the last embedding call

engineVars == <<mstate, mcfg, cstate, ccfg, cmem, cthr, cemb, nfree, mparams>>
lifeVars == <<ptr, bpc, bst>>
callVars == <<pc, args, loc, heap, out, ret, trace, tokCalls, snap, failStep, met>>
auxVars == <<norm, bind>>
vars == <<engineVars, lifeVars, callVars, auxVars>>

Threads == {1, 2}

\* ------------------------------------------------- engine stub: accessors

llama_model_n_embd(m) == mcfg[m].n_embd

llama_model_get_vocab(m) == mcfg[m].vocab

\* NULL for a context of a model without attention memory.
llama_get_memory(c) == IF mcfg[Parent(c)].has_memory THEN c ELSE NULL

\* The pooling a context runs with: the model's own unless one was requested.
PoolingOf(c) ==
    IF ccfg[c].pooling_type = LLAMA_POOLING_TYPE_UNSPECIFIED
    THEN mcfg[Parent(c)].pooling
    ELSE ccfg[c].pooling_type

\* What a successful forward pass over `seen` leaves in context c.
EmbeddingsOf(c, seen) ==
    [ seq |-> IF ccfg[c].embeddings /\ PoolingOf(c) # LLAMA_POOLING_TYPE_NONE
              THEN PooledOf(seen) ELSE NullVec,
      raw |-> IF ccfg[c].embeddings THEN RawOf(seen) ELSE NullVec ]

\* The accessors return a pointer into the context ("seq", "raw") or NULL.
llama_get_embeddings_seq(c) == IF cemb[c].seq = NullVec THEN NULL ELSE "seq"

llama_get_embeddings(c) == IF cemb[c].raw = NullVec THEN NULL ELSE "raw"

\* Mutant: the raw embedding is read whichever accessor gave the pointer.
DerefRaw(c, p) == cemb[c].raw

Deref(c, p) == IF p = "seq" THEN cemb[c].seq ELSE cemb[c].raw

NoEmbeddings == [seq |-> NullVec, raw |-> NullVec]

CtxStateOf(c) == [mem |-> cmem[c], thr |-> cthr[c], emb |-> cemb[c]]

NoSnap == [mem |-> <<>>, thr |-> [n_threads |-> 0, n_threads_batch |-> 0], emb |-> NoEmbeddings]

\* ------------------------------------------------------------ call records

NoArgs ==
    [ ctx |-> NULL, model |-> NULL, text |-> NullText, add_special |-> FALSE,
      parse_special |-> FALSE, out |-> NULL, out_len |-> 0, n_threads |-> 0,
      n_threads_batch |-> 0, normalize |-> 0 ]

NoLocals ==
    [ n_embd |-> 0, vocab |-> "none", n_tokens_max |-> 0, tokens |-> 0,
      needed |-> 0, n_tokens |-> 0, batch |-> <<>>, rc |-> 0, embd |-> NULL ]

InCall(t) == pc[t] \notin {"idle", "done"}

\* Leaving rm_llama_embed_text with `code`; `step` names the failing step.
Return(t, code, step) ==
    /\ pc' = [pc EXCEPT ![t] = "done"]
    /\ ret' = [ret EXCEPT ![t] = code]
    /\ failStep' = [failStep EXCEPT ![t] = step]

Goto(t, label) ==
    /\ pc' = [pc EXCEPT ![t] = label]
    /\ UNCHANGED <<ret, failStep>>

Called(t, fns) == trace' = [trace EXCEPT ![t] = trace[t] \o fns]

\* malloc(cap * sizeof(llama_token)) succeeding: a new live buffer.
Malloc(h, cap) == Append(h, [cap |-> cap, live |-> TRUE, frees |-> 0, data |-> <<>>])

\* Mutant: the buffer is not given back.
FreeForgotten(h, b) == h

\* free(tokens).
Free(h, b) == [h EXCEPT ![b].live = FALSE, ![b].frees = @ + 1]

\* ------------------------------------------------- rm_llama_embed_text

\* Line 130: any NULL among ctx, model, text, out.
NullArgument(a) ==
    a.ctx = NULL \/ a.model = NULL \/ a.text = NullText \/ a.out = NULL

\* Mutant: the length of the caller's buffer is not compared.
BufferLengthUnchecked(n_embd, out_len) == n_embd <= 0

\* Line 135.
BufferTooSmall(n_embd, out_len) == n_embd <= 0 \/ out_len < n_embd

\* Mutant: the reset is left out.
ClearsNothing(mem) == FALSE

\* Mutant: the NULL test is inverted.
ClearsOnlyNull(mem) == mem = NULL

\* Line 141: the memory is cleared when the accessor returned one.
ClearsMemory(mem) == mem # NULL

\* Line 146.
ThreadsRequested(n_threads, n_threads_batch) ==
    n_threads > 0 \/ n_threads_batch > 0

\* Line 147: llama_set_n_threads(ctx, n_threads, n_threads_batch) stores both.
ThreadsApplied(old, n_threads, n_threads_batch) ==
    [n_threads |-> n_threads, n_threads_batch |-> n_threads_batch]

\* Mutant: the floor of 16 is left out.
InitialCapacityNoFloor(text_len) == text_len + TokenMargin

\* Lines 155-159.
InitialCapacity(text_len) == Max(text_len + TokenMargin, TokenFloor)

\* Mutant: the retry doubles the size the tokenizer named.
RetryCapacityDoubled(n_tokens) == 2 * (-n_tokens)

\* Line 168: the capacity of the retry.
RetryCapacity(n_tokens) == -n_tokens

\* Line 177.
TokenizationFailed(n_tokens) == n_tokens <= 0

\* Mutant: only negative codes count as a failed forward pass.
DecodeFailedIfNegative(rc) == rc < 0

\* Line 187.
DecodeFailed(rc) == rc # 0

\* Mutant: every call works on the same context.
GlobalContext(t) == "c1"

\* The context a call works on: its ctx argument.
CallContext(t) == args[t].ctx

\* A caller enters rm_llama_embed_text with arguments a; handles it passes
\* are NULL or live, and a context goes with the model it was created from.
EmbedCall(t, a) ==
    /\ pc[t] = "idle"
    /\ a.ctx # NULL => cstate[a.ctx] = "live"
    /\ a.model # NULL => mstate[a.model] = "live"
    /\ (a.ctx # NULL /\ a.model # NULL) => Parent(a.ctx) = a.model
    /\ pc' = [pc EXCEPT ![t] = "check"]
    /\ args' = [args EXCEPT ![t] = a]
    /\ loc' = [loc EXCEPT ![t] = NoLocals]
    /\ heap' = [heap EXCEPT ![t] = <<>>]
    /\ out' = [out EXCEPT ![t] =
                 IF a.out = NULL THEN <<>> ELSE [i \in 1..a.out_len |-> Unwritten]]
    /\ ret' = [ret EXCEPT ![t] = 0]
    /\ trace' = [trace EXCEPT ![t] = <<>>]
    /\ tokCalls' = [tokCalls EXCEPT ![t] = <<>>]
    /\ snap' = [snap EXCEPT ![t] = IF a.ctx = NULL THEN NoSnap ELSE CtxStateOf(a.ctx)]
    /\ failStep' = [failStep EXCEPT ![t] = "none"]
    /\ LET others == {u \in Threads \ {t} : InCall(u)}
       IN  met' = [u \in Threads |->
                     IF u = t THEN {args[v].ctx : v \in others}
                     ELSE IF u \in others THEN met[u] \cup {a.ctx} ELSE met[u]]
    /\ UNCHANGED <<engineVars, lifeVars, auxVars>>

\* Lines 130-137: the argument checks.
CheckArgs(t) ==
    /\ pc[t] = "check"
    /\ IF NullArgument(args[t])
       THEN /\ Return(t, ErrNullArgument, "args")
            /\ UNCHANGED <<loc, trace>>
       ELSE LET n_embd == llama_model_n_embd(args[t].model)
            IN  /\ Called(t, <<"llama_model_n_embd">>)
                /\ loc' = [loc EXCEPT ![t].n_embd = n_embd]
                /\ IF BufferTooSmall(n_embd, args[t].out_len)
                   THEN Return(t, ErrOutputBufferTooSmall, "buffer")
                   ELSE Goto(t, "reset")
    /\ UNCHANGED <<engineVars, lifeVars, auxVars, args, heap, out, tokCalls, snap, met>>

\* Lines 139-143: reset the context's memory.
ResetMemory(t) ==
    /\ pc[t] = "reset"
    /\ LET c   == CallContext(t)
           mem == llama_get_memory(c)
       IN  IF ClearsMemory(mem)
           THEN /\ cmem' = [cmem EXCEPT ![c] = <<>>]
                /\ Called(t, <<"llama_get_memory", "llama_memory_clear">>)
           ELSE /\ UNCHANGED cmem
                /\ Called(t, <<"llama_get_memory">>)
    /\ Goto(t, "threads")
    /\ UNCHANGED <<mstate, mcfg, cstate, ccfg, cthr, cemb, nfree, mparams, lifeVars, auxVars,
                   args, loc, heap, out, tokCalls, snap, met>>

\* Lines 145-148: per-call thread settings.
SetThreads(t) ==
    /\ pc[t] = "threads"
    /\ LET c == CallContext(t)
       IN  IF ThreadsRequested(args[t].n_threads, args[t].n_threads_batch)
           THEN /\ cthr' = [cthr EXCEPT ![c] =
                       ThreadsApplied(cthr[c], args[t].n_threads, args[t].n_threads_batch)]
                /\ Called(t, <<"llama_set_n_threads">>)
           ELSE UNCHANGED <<cthr, trace>>
    /\ Goto(t, "vocab")
    /\ UNCHANGED <<mstate, mcfg, cstate, ccfg, cmem, cemb, nfree, mparams, lifeVars, auxVars,
                   args, loc, heap, out, tokCalls, snap, met>>

\* Lines 150-153: the vocabulary.
GetVocab(t) ==
    /\ pc[t] = "vocab"
    /\ LET vocab == llama_model_get_vocab(args[t].model)
       IN  /\ Called(t, <<"llama_model_get_vocab">>)
           /\ loc' = [loc EXCEPT ![t].vocab = vocab]
           /\ IF vocab = "none"
              THEN Return(t, ErrVocabularyUnavailable, "vocab")
              ELSE Goto(t, "alloc")
    /\ UNCHANGED <<engineVars, lifeVars, auxVars, args, heap, out, tokCalls, snap, met>>

\* Lines 155-164: the first token buffer; malloc may fail.
AllocTokens(t) ==
    /\ pc[t] = "alloc"
    /\ LET n_tokens_max == InitialCapacity(strlen(args[t].text))
       IN  \E ok \in BOOLEAN :
             IF ok
             THEN /\ heap' = [heap EXCEPT ![t] = Malloc(heap[t], n_tokens_max)]
                  /\ loc' = [loc EXCEPT ![t].n_tokens_max = n_tokens_max,
                                        ![t].tokens = Len(heap[t]) + 1]
                  /\ Goto(t, "tokenize")
             ELSE /\ loc' = [loc EXCEPT ![t].n_tokens_max = n_tokens_max]
                  /\ UNCHANGED heap
                  /\ Return(t, ErrBufferAllocationFailed, "alloc")
    /\ UNCHANGED <<engineVars, lifeVars, auxVars, args, out, trace, tokCalls, snap, met>>

\* One llama_tokenize call into buffer loc.tokens with capacity cap.
TokenizeInto(t, cap) ==
    LET a == args[t]
        n == llama_tokenize(loc[t].vocab, a.text, cap, a.add_special, a.parse_special)
        b == loc[t].tokens
    IN  /\ Called(t, <<"llama_tokenize">>)
        /\ tokCalls' = [tokCalls EXCEPT ![t] =
               Append(@, [cap |-> cap, result |-> n, buf |-> b,
                          live |-> heap[t][b].live, bufcap |-> heap[t][b].cap])]
        /\ heap' = [heap EXCEPT ![t][b].data =
               IF n >= 0 THEN TokensOf(loc[t].vocab, a.text, a.add_special, a.parse_special)
               ELSE <<>>]
        /\ loc' = [loc EXCEPT ![t].n_tokens = n]

\* Lines 166-167: the first tokenizer call.
Tokenize(t) ==
    /\ pc[t] = "tokenize"
    /\ TokenizeInto(t, loc[t].n_tokens_max)
    /\ Goto(t, IF loc'[t].n_tokens < 0 THEN "realloc" ELSE "counted")
    /\ UNCHANGED <<engineVars, lifeVars, auxVars, args, out, snap, met>>

\* Lines 168-173: free the buffer and allocate the size the tokenizer named.
ReallocTokens(t) ==
    /\ pc[t] = "realloc"
    /\ LET needed == RetryCapacity(loc[t].n_tokens)
           freed  == Free(heap[t], loc[t].tokens)
       IN  \E ok \in BOOLEAN :
             IF ok
             THEN /\ heap' = [heap EXCEPT ![t] = Malloc(freed, needed)]
                  /\ loc' = [loc EXCEPT ![t].needed = needed,
                                        ![t].tokens = Len(freed) + 1]
                  /\ Goto(t, "retokenize")
             ELSE /\ heap' = [heap EXCEPT ![t] = freed]
                  /\ loc' = [loc EXCEPT ![t].needed = needed, ![t].tokens = 0]
                  /\ Return(t, ErrBufferAllocationFailed, "alloc")
    /\ UNCHANGED <<engineVars, lifeVars, auxVars, args, out, trace, tokCalls, snap, met>>

\* Line 174: the one retry.
Retokenize(t) ==
    /\ pc[t] = "retokenize"
    /\ TokenizeInto(t, loc[t].needed)
    /\ Goto(t, "counted")
    /\ UNCHANGED <<engineVars, lifeVars, auxVars, args, out, snap, met>>

\* Lines 177-180: a count of zero or less ends the call.
CheckTokens(t) ==
    /\ pc[t] = "counted"
    /\ IF TokenizationFailed(loc[t].n_tokens)
       THEN /\ heap' = [heap EXCEPT ![t] = Free(heap[t], loc[t].tokens)]
            /\ Return(t, ErrEmptyOrFailedTokenization, "tokenize")
       ELSE /\ UNCHANGED heap
            /\ Goto(t, "decode")
    /\ UNCHANGED <<engineVars, lifeVars, auxVars, args, loc, out, trace, tokCalls, snap, met>>

\* llama_batch_get_one: a view of the first n_tokens tokens of the buffer.
llama_batch_get_one(buffer, n_tokens) == SubSeq(buffer.data, 1, n_tokens)

\* Every token the forward pass attends to: the context's memory, if it has
\* one, followed by the batch.
Seen(c, batch) == IF llama_get_memory(c) # NULL THEN cmem[c] \o batch ELSE batch

\* The codes llama_decode can return for a batch: only "no slot" when the
\* tokens do not fit the context, else success or any failure.
DecodeOutcomes(c, batch) ==
    IF Len(Seen(c, batch)) > ccfg[c].n_ctx THEN {DecodeNoSlot}
    ELSE {DecodeSuccess} \cup DecodeFailures

\* Lines 182-189: the forward pass.  A pass that fails may have stored its
\* batch in the memory or not.
Decode(t) ==
    /\ pc[t] = "decode"
    /\ LET c     == CallContext(t)
           b     == loc[t].tokens
           batch == llama_batch_get_one(heap[t][b], loc[t].n_tokens)
           seen  == Seen(c, batch)
       IN  \E rc \in DecodeOutcomes(c, batch) :
             /\ IF rc = DecodeSuccess
                THEN /\ cmem' = [cmem EXCEPT ![c] =
                            IF llama_get_memory(c) # NULL THEN seen ELSE @]
                     /\ cemb' = [cemb EXCEPT ![c] = EmbeddingsOf(c, seen)]
                ELSE /\ \E stored \in BOOLEAN :
                          cmem' = [cmem EXCEPT ![c] =
                              IF stored /\ rc # DecodeNoSlot /\ llama_get_memory(c) # NULL
                              THEN seen ELSE @]
                     /\ UNCHANGED cemb
             /\ Called(t, <<"llama_decode">>)
             /\ loc' = [loc EXCEPT ![t].batch = batch, ![t].rc = rc]
             /\ heap' = [heap EXCEPT ![t] = Free(heap[t], b)]
             /\ IF DecodeFailed(rc) THEN Return(t, rc, "decode") ELSE Goto(t, "embd")
    /\ UNCHANGED <<mstate, mcfg, cstate, ccfg, cthr, nfree, mparams, lifeVars, auxVars,
                   args, out, tokCalls, snap, met>>

\* Lines 191-198: the pooled embedding of sequence 0, else the raw one.
GetEmbeddings(t) ==
    /\ pc[t] = "embd"
    /\ LET c      == CallContext(t)
           pooled == llama_get_embeddings_seq(c)
           embd   == IF pooled = NULL THEN llama_get_embeddings(c) ELSE pooled
       IN  /\ Called(t, IF pooled = NULL
                        THEN <<"llama_get_embeddings_seq", "llama_get_embeddings">>
                        ELSE <<"llama_get_embeddings_seq">>)
           /\ loc' = [loc EXCEPT ![t].embd = embd]
           /\ IF embd = NULL
              THEN Return(t, ErrEmbeddingsUnavailable, "embd")
              ELSE Goto(t, "output")
    /\ UNCHANGED <<engineVars, lifeVars, auxVars, args, heap, out, tokCalls, snap, met>>

\* Mutant: an all-zero embedding is copied out and then reported as
\* unavailable.
WriteOutputThenReject(t) ==
    /\ pc[t] = "output"
    /\ LET embd == Deref(CallContext(t), loc[t].embd)
       IN  /\ out' = [out EXCEPT ![t] = rm_copy_f32(out[t], embd, loc[t].n_embd)]
           /\ IF \A i \in 1..Len(embd) : embd[i][1] = 0
              THEN Return(t, ErrEmbeddingsUnavailable, "embd")
              ELSE Return(t, 0, "none")
    /\ UNCHANGED <<engineVars, lifeVars, auxVars, args, loc, heap, trace, tokCalls, snap, met>>

\* Lines 200-206: normalize or copy into the caller's buffer, return 0.
WriteOutput(t) ==
    /\ pc[t] = "output"
    /\ LET embd == Deref(CallContext(t), loc[t].embd)
       IN  out' = [out EXCEPT ![t] =
               IF args[t].normalize = NormalizeL2
               THEN rm_l2_normalize(out[t], embd, loc[t].n_embd)
               ELSE rm_copy_f32(out[t], embd, loc[t].n_embd)]
    /\ Return(t, 0, "none")
    /\ UNCHANGED <<engineVars, lifeVars, auxVars, args, loc, heap, trace, tokCalls, snap, met>>

\* ------------------------------------------------------ handle lifecycle

\* llama_model_default_params / llama_context_default_params, as far as the
\* shim overrides them.
llama_model_default_params ==
    [ n_gpu_layers |-> 0, use_mmap |-> TRUE, use_mlock |-> FALSE,
      vocab_only |-> FALSE, check_tensors |-> FALSE ]

llama_context_default_params ==
    [ n_ctx |-> 0, n_batch |-> 0, n_ubatch |-> 0, n_threads |-> 4,
      n_threads_batch |-> 4, embeddings |-> FALSE,
      pooling_type |-> LLAMA_POOLING_TYPE_UNSPECIFIED,
      attention_type |-> LLAMA_ATTENTION_TYPE_UNSPECIFIED ]

\* rm_llama_model_load_from_file, lines 48-55: the parameters of the load.
ModelParams(n_gpu_layers, use_mmap, use_mlock) ==
    [ llama_model_default_params EXCEPT
        !.n_gpu_layers = n_gpu_layers, !.use_mmap = use_mmap,
        !.use_mlock = use_mlock, !.vocab_only = FALSE, !.check_tensors = FALSE ]

\* rm_llama_context_init, lines 82-99: the parameters of the context.
ContextParams(n_ctx, n_batch, n_ubatch, n_threads, n_threads_batch, pooling_type, attention_type, embeddings) ==
    [ llama_context_default_params EXCEPT
        !.n_ctx = n_ctx, !.n_batch = n_batch, !.n_ubatch = n_ubatch,
        !.n_threads = n_threads, !.n_threads_batch = n_threads_batch,
        !.embeddings = embeddings,
        !.pooling_type = IF pooling_type # LLAMA_POOLING_TYPE_UNSPECIFIED
                         THEN pooling_type ELSE @,
        !.attention_type = IF attention_type # LLAMA_ATTENTION_TYPE_UNSPECIFIED
                           THEN attention_type ELSE @ ]

ThreadsOf(params) ==
    [n_threads |-> params.n_threads, n_threads_batch |-> params.n_threads_batch]

\* The contexts the embedding specifications start with: <<pooling_type,
\* embeddings>> as requested of rm_llama_context_init.
CtxConfigs ==
    { ContextParams(NCtx, NCtx, NCtx, 4, 4, pe[1], LLAMA_ATTENTION_TYPE_UNSPECIFIED, pe[2]) :
        pe \in { <<LLAMA_POOLING_TYPE_UNSPECIFIED, TRUE>>,
                 <<LLAMA_POOLING_TYPE_MEAN, TRUE>>,
                 <<LLAMA_POOLING_TYPE_UNSPECIFIED, FALSE>> } }

\* The models the lifecycle loads.
LifeModelConfigs == {mc \in ModelConfigs : mc.vocab = "byte" /\ mc.n_embd > 0}

\* rm_llama_model_load_from_file, lines 47-58: the engine returns a model or
\* NULL.  The caller keeps the result in ptr["M"].
ModelLoad(n_gpu_layers, use_mmap, use_mlock) ==
    /\ ptr["M"] = NULL /\ mstate["M"] = "none"
    /\ \E loaded \in BOOLEAN, mc \in LifeModelConfigs :
         IF loaded
         THEN /\ mstate' = [mstate EXCEPT !["M"] = "live"]
              /\ mcfg' = [mcfg EXCEPT !["M"] = mc]
              /\ mparams' = [mparams EXCEPT !["M"] =
                     ModelParams(n_gpu_layers, use_mmap, use_mlock)]
              /\ ptr' = [ptr EXCEPT !["M"] = "M"]
         ELSE UNCHANGED <<mstate, mcfg, mparams, ptr>>
    /\ UNCHANGED <<cstate, ccfg, cmem, cthr, cemb, nfree, bpc, bst, callVars, auxVars>>

\* rm_llama_context_init, lines 67-102: NULL for a NULL model, else what
\* llama_init_from_model returns.  The caller keeps the result in ptr[c].
ContextInit(c, pooling_type, attention_type, embeddings) ==
    /\ ptr[c] = NULL /\ cstate[c] = "none"
    /\ LET model  == ptr["M"]
           params == ContextParams(NCtx, NCtx, NCtx, 4, 4, pooling_type,
                                   attention_type, embeddings)
       IN  IF model = NULL
           THEN UNCHANGED <<cstate, ccfg, cthr, ptr>>
           ELSE \E made \in BOOLEAN :
                  IF made
                  THEN /\ cstate' = [cstate EXCEPT ![c] = "live"]
                       /\ ccfg' = [ccfg EXCEPT ![c] = params]
                       /\ cthr' = [cthr EXCEPT ![c] = ThreadsOf(params)]
                       /\ ptr' = [ptr EXCEPT ![c] = c]
                  ELSE UNCHANGED <<cstate, ccfg, cthr, ptr>>
    /\ UNCHANGED <<mstate, mcfg, mparams, cmem, cemb, nfree, bpc, bst, callVars, auxVars>>

\* llama_free / llama_model_free in the engine: the handle is released.
Released(state, h) == [state EXCEPT ![h] = "freed"]

\* rm_llama_free, lines 104-109, on the caller's pointer, which the caller
\* then forgets.
ContextFree(c) ==
    /\ IF ptr[c] = NULL
       THEN UNCHANGED <<cstate, nfree, ptr>>
       ELSE /\ cstate' = Released(cstate, ptr[c])
            /\ nfree' = [nfree EXCEPT ![ptr[c]] = @ + 1]
            /\ ptr' = [ptr EXCEPT ![c] = NULL]
    /\ UNCHANGED <<mstate, mcfg, mparams, ccfg, cmem, cthr, cemb, bpc, bst, callVars, auxVars>>

\* rm_llama_model_free, lines 60-65, called once the caller has released
\* every context it created from the model.
ModelFree ==
    /\ \A c \in ShimCtxs : ptr[c] = NULL
    /\ IF ptr["M"] = NULL
       THEN UNCHANGED <<mstate, nfree, ptr>>
       ELSE /\ mstate' = Released(mstate, ptr["M"])
            /\ nfree' = [nfree EXCEPT ![ptr["M"]] = @ + 1]
            /\ ptr' = [ptr EXCEPT !["M"] = NULL]
    /\ UNCHANGED <<mcfg, mparams, cstate, ccfg, cmem, cthr, cemb, bpc, bst, callVars, auxVars>>

\* load_binding_model_custom, lines 261-377: common_init_from_params gives a
\* model and a context, or nothing, and then nullptr is returned.
BindingLoad(n_ctx, embeddings) ==
    /\ bpc = "unloaded"
    /\ \E loaded \in BOOLEAN, mc \in LifeModelConfigs :
         IF loaded
         THEN /\ mstate' = [mstate EXCEPT !["B"] = "live"]
              /\ mcfg' = [mcfg EXCEPT !["B"] = mc]
              /\ cstate' = [cstate EXCEPT !["bc"] = "live"]
              /\ ccfg' = [ccfg EXCEPT !["bc"] =
                     [llama_context_default_params EXCEPT
                         !.n_ctx = n_ctx, !.embeddings = embeddings]]
              /\ bst' = [context |-> "bc", model |-> "B", params |-> "lparams",
                         state |-> "state"]
              /\ bpc' = "loaded"
         ELSE /\ bpc' = "failed"
              /\ UNCHANGED <<mstate, mcfg, cstate, ccfg, bst>>
    /\ UNCHANGED <<mparams, cmem, cthr, cemb, nfree, ptr, callVars, auxVars>>

\* llama_binding_free_model, line 155: state->model.reset().
BindingResetModel ==
    /\ bpc = "loaded"
    /\ IF bst.model = NULL
       THEN UNCHANGED <<mstate, nfree>>
       ELSE /\ mstate' = Released(mstate, bst.model)
            /\ nfree' = [nfree EXCEPT ![bst.model] = @ + 1]
    /\ bst' = [bst EXCEPT !.model = NULL]
    /\ bpc' = "model_reset"
    /\ UNCHANGED <<mcfg, mparams, cstate, ccfg, cmem, cthr, cemb, ptr, callVars, auxVars>>

\* llama_binding_free_model, line 156: state->context.reset().
BindingResetContext ==
    /\ bpc = "model_reset"
    /\ IF bst.context = NULL
       THEN UNCHANGED <<cstate, nfree>>
       ELSE /\ cstate' = Released(cstate, bst.context)
            /\ nfree' = [nfree EXCEPT ![bst.context] = @ + 1]
    /\ bst' = [bst EXCEPT !.context = NULL]
    /\ bpc' = "context_reset"
    /\ UNCHANGED <<mstate, mcfg, mparams, ccfg, cmem, cthr, cemb, ptr, callVars, auxVars>>

\* llama_binding_free_model, lines 157-163: the params and the state are
\* deleted; the smart pointers of the state are empty by then.
BindingDeleteState ==
    /\ bpc = "context_reset"
    /\ bst' = [bst EXCEPT !.params = NULL, !.state = NULL]
    /\ bpc' = "freed"
    /\ UNCHANGED <<engineVars, ptr, callVars, auxVars>>

\* ----------------------------------------- legacy binding: embeddings

\* No common_params allocated for embeddings and no embedding call made.
NoBind ==
    [ params |-> NULL, prompt |-> <<>>, seeded |-> FALSE, fn |-> "none",
      tokens |-> <<>>, entry |-> <<>>, text |-> <<>>, decoded |-> FALSE,
      ret |-> 0, res |-> <<>> ]

\* llama_token_to_piece with special rendering on: the byte of a plain token
\* (10 + b), the spelling of the special token 2, and <<-1>> for a negative
\* return (a token the vocabulary does not know).
NoPiece == <<-1>>

llama_token_to_piece(vocab, token) ==
    IF token \in {11, 12} THEN <<token - 10>>
    ELSE IF token = 2 THEN <<2>>
    ELSE NoPiece

\* get_token_embeddings, lines 97-106: the pieces of the tokens are appended
\* to params_p->prompt one by one until one cannot be converted.
RECURSIVE AppendPieces(_, _, _)
AppendPieces(vocab, prompt, tokens) ==
    IF tokens = <<>> THEN [prompt |-> prompt, ok |-> TRUE]
    ELSE LET piece == llama_token_to_piece(vocab, Head(tokens))
         IN  IF piece = NoPiece THEN [prompt |-> prompt, ok |-> FALSE]
             ELSE AppendPieces(vocab, prompt \o piece, Tail(tokens))

\* common_tokenize(ctx, prompt, true, true).
common_tokenize(c, prompt) ==
    TokensOf(llama_model_get_vocab(Parent(c)), prompt, TRUE, TRUE)

\* common_embd_normalize(inp, out, n, 2): every element times 1/norm, times 0
\* when the norm is not positive.
common_embd_normalize(inp, n) ==
    LET sum == SumSquares(inp, n)
        len == RSqrt(sum)
    IN  [i \in 1..n |-> IF RLeqZero(len) THEN <<0, 1>> ELSE RMul(inp[i], RInv(len))]

\* The vector get_embeddings reads from embeddings e: the pooled one of
\* sequence 0, else the raw one, else NULL (lines 73-76).
LegacyVector(e) == IF e.seq # NullVec THEN e.seq ELSE e.raw

\* llama_allocate_params_for_embeddings, lines 235-241: new params holding
\* the caller's prompt.
llama_allocate_params_for_embeddings(prompt) ==
    /\ bpc = "loaded"
    /\ bind' = [NoBind EXCEPT !.params = "params", !.prompt = prompt]
    /\ UNCHANGED <<engineVars, lifeVars, callVars, norm>>

\* get_embeddings, lines 46-86, on params whose prompt is `prompt` after a
\* caller `fn` was given `tokens`: the forward pass is skipped when the prompt
\* has no tokens, the context's memory is not cleared, and every failure
\* returns 1.
LegacyEmbed(fn, tokens, prompt) ==
    LET c    == bst.context
        toks == common_tokenize(c, prompt)
        seen == Seen(c, toks)
        done(code, decoded, res) ==
            bind' = [bind EXCEPT !.seeded = TRUE, !.fn = fn, !.tokens = tokens,
                                 !.entry = bind.prompt, !.prompt = prompt,
                                 !.text = prompt, !.decoded = decoded,
                                 !.ret = code, !.res = res]
        finish(e, decoded) ==
            IF LegacyVector(e) = NullVec
            THEN done(1, decoded, <<>>)
            ELSE done(0, decoded,
                      common_embd_normalize(LegacyVector(e),
                                            llama_model_n_embd(bst.model)))
    IN  IF Len(toks) > 0
        THEN \E rc \in DecodeOutcomes(c, toks) :
               IF rc = DecodeSuccess
               THEN /\ cmem' = [cmem EXCEPT ![c] =
                           IF llama_get_memory(c) # NULL THEN seen ELSE @]
                    /\ cemb' = [cemb EXCEPT ![c] = EmbeddingsOf(c, seen)]
                    /\ finish(EmbeddingsOf(c, seen), TRUE)
               ELSE /\ \E stored \in BOOLEAN :
                         cmem' = [cmem EXCEPT ![c] =
                             IF stored /\ rc # DecodeNoSlot /\ llama_get_memory(c) # NULL
                             THEN seen ELSE @]
                    /\ UNCHANGED cemb
                    /\ done(1, TRUE, <<>>)
        ELSE /\ UNCHANGED <<cmem, cemb>>
             /\ finish(cemb[c], FALSE)

\* get_embeddings called on the allocated params.
get_embeddings ==
    /\ bpc = "loaded" /\ bind.params # NULL
    /\ LegacyEmbed("get_embeddings", <<>>, bind.prompt)
    /\ UNCHANGED <<mstate, mcfg, cstate, ccfg, cthr, nfree, mparams, lifeVars,
                   callVars, norm>>

\* get_token_embeddings, lines 89-109.
get_token_embeddings(tokens) ==
    /\ bpc = "loaded" /\ bind.params # NULL
    /\ Len(bind.prompt) + Len(tokens) <= MaxPrompt
    /\ LET ap == AppendPieces(llama_model_get_vocab(bst.model), bind.prompt, tokens)
       IN  IF ap.ok
           THEN LegacyEmbed("get_token_embeddings", tokens, ap.prompt)
           ELSE /\ bind' = [bind EXCEPT !.fn = "get_token_embeddings",
                                        !.tokens = tokens, !.entry = bind.prompt,
                                        !.prompt = ap.prompt, !.text = <<>>,
                                        !.decoded = FALSE, !.ret = 1, !.res = <<>>]
                /\ UNCHANGED <<cmem, cemb>>
    /\ UNCHANGED <<mstate, mcfg, cstate, ccfg, cthr, nfree, mparams, lifeVars,
                   callVars, norm>>

\* ------------------------------------------------------------------- Init

\* No call in flight.
CallersIdle ==
    /\ pc = [t \in Threads |-> "idle"]
    /\ args = [t \in Threads |-> NoArgs]
    /\ loc = [t \in Threads |-> NoLocals]
    /\ heap = [t \in Threads |-> <<>>]
    /\ out = [t \in Threads |-> <<>>]
    /\ ret = [t \in Threads |-> 0]
    /\ trace = [t \in Threads |-> <<>>]
    /\ tokCalls = [t \in Threads |-> <<>>]
    /\ snap = [t \in Threads |-> NoSnap]
    /\ failStep = [t \in Threads |-> "none"]
    /\ met = [t \in Threads |-> {}]

\* The normalizer is not exercised on its own.
NoNorm == [pc |-> "off", fn |-> "none", src |-> <<>>, n |-> 0, dst |-> <<>>]

NormalizerOff == norm = NoNorm

\* The legacy binding not loaded.
BindingUnloaded ==
    /\ bpc = "unloaded"
    /\ bst = [context |-> NULL, model |-> NULL, params |-> NULL, state |-> NULL]
    /\ bind = NoBind

\* The shim's model loaded with configuration mc and the contexts `live`
\* created from it with parameters cc; prior[c] is the token sequence an
\* earlier successful call left in context c, empty if there was none.
ShimLoaded(mc, live, cc, prior) ==
    /\ mstate = [m \in Models |-> IF m = "M" THEN "live" ELSE "none"]
    /\ mcfg = [m \in Models |-> IF m = "M" THEN mc ELSE NoModel]
    /\ mparams = [m \in Models |-> llama_model_default_params]
    /\ cstate = [c \in Ctxs |-> IF c \in live THEN "live" ELSE "none"]
    /\ ccfg = [c \in Ctxs |-> IF c \in live THEN cc ELSE llama_context_default_params]
    /\ cmem = prior
    /\ cthr = [c \in Ctxs |-> IF c \in live THEN ThreadsOf(cc)
                                ELSE ThreadsOf(llama_context_default_params)]
    /\ cemb = [c \in Ctxs |-> IF prior[c] = <<>> THEN NoEmbeddings
                                ELSE EmbeddingsOf(c, prior[c])]
    /\ nfree = [h \in Models \cup Ctxs |-> 0]
    /\ ptr = [h \in {"M"} \cup ShimCtxs |-> IF h = "M" \/ h \in live THEN h ELSE NULL]

NoPrior == [c \in Ctxs |-> <<>>]

\* One caller, one context: the calls on a context follow one another.
Init ==
    /\ \E mc \in ModelConfigs, cc \in CtxConfigs : ShimLoaded(mc, {"c1"}, cc, NoPrior)
    /\ BindingUnloaded
    /\ CallersIdle
    /\ NormalizerOff

\* The arguments callers pass.  A call with a NULL argument passes exactly
\* one, the others as in DefaultArgs.
DefaultArgs ==
    [ ctx |-> "c1", model |-> "M", text |-> <<1>>, add_special |-> TRUE,
      parse_special |-> TRUE, out |-> "buf", out_len |-> 4, n_threads |-> 0,
      n_threads_batch |-> 0, normalize |-> 0 ]

NullCalls ==
    { [DefaultArgs EXCEPT !.ctx = NULL], [DefaultArgs EXCEPT !.model = NULL],
      [DefaultArgs EXCEPT !.text = NullText], [DefaultArgs EXCEPT !.out = NULL] }

\* Calls that vary the text, its flags and the normalization, and one call
\* with a normalization mode that is neither 0 nor 2.
TextCalls ==
    { [DefaultArgs EXCEPT !.text = x, !.add_special = s, !.parse_special = p,
                          !.normalize = n] :
        x \in Texts, s \in BOOLEAN, p \in BOOLEAN, n \in {0, 2} }
    \cup { [DefaultArgs EXCEPT !.normalize = 1] }

\* Calls that vary the requested thread counts.
ThreadCalls ==
    { [DefaultArgs EXCEPT !.n_threads = nb[1], !.n_threads_batch = nb[2]] :
        nb \in { <<0, -1>>, <<0, 3>>, <<2, 3>> } }

\* Calls with an output buffer one float short of the embedding.
ShortCalls ==
    { [DefaultArgs EXCEPT !.out_len = 3, !.n_threads = n] : n \in {0, 2} }

EmbedArgs(ctxs) ==
    { [a EXCEPT !.ctx = IF @ = NULL THEN NULL ELSE c] :
        a \in NullCalls \cup TextCalls \cup ThreadCalls \cup ShortCalls, c \in ctxs }

\* The caller has read the result and its frame is gone.
Collect(t) ==
    /\ pc[t] = "done"
    /\ pc' = [pc EXCEPT ![t] = "idle"]
    /\ args' = [args EXCEPT ![t] = NoArgs]
    /\ loc' = [loc EXCEPT ![t] = NoLocals]
    /\ heap' = [heap EXCEPT ![t] = <<>>]
    /\ out' = [out EXCEPT ![t] = <<>>]
    /\ ret' = [ret EXCEPT ![t] = 0]
    /\ trace' = [trace EXCEPT ![t] = <<>>]
    /\ tokCalls' = [tokCalls EXCEPT ![t] = <<>>]
    /\ snap' = [snap EXCEPT ![t] = NoSnap]
    /\ failStep' = [failStep EXCEPT ![t] = "none"]
    /\ met' = [met EXCEPT ![t] = {}]
    /\ UNCHANGED <<engineVars, lifeVars, auxVars>>

CallStep(t) ==
    \/ CheckArgs(t)
    \/ ResetMemory(t)
    \/ SetThreads(t)
    \/ GetVocab(t)
    \/ AllocTokens(t)
    \/ Tokenize(t)
    \/ ReallocTokens(t)
    \/ Retokenize(t)
    \/ CheckTokens(t)
    \/ Decode(t)
    \/ GetEmbeddings(t)
    \/ WriteOutput(t)

Next ==
    \/ \E a \in EmbedArgs({"c1"}) : EmbedCall(1, a)
    \/ CallStep(1)
    \/ Collect(1)

Spec == Init /\ [][Next]_vars

\* Two callers and two contexts of one model, each caller making one call:
\* the calls may interleave step by step.  The first caller uses context c1,
\* the second c1 or c2, so the calls share a context or do not, and a context
\* may hold what an earlier call left in it.
ConcModelConfigs == {mc \in ModelConfigs : mc.vocab = "wide"}

ConcCalls ==
    { [DefaultArgs EXCEPT !.text = x, !.parse_special = FALSE, !.normalize = 2] :
        x \in {y \in Texts : Len(y) \in {1, MaxTextLen}} }

ConcCtxs(t) == IF t = 1 THEN {"c1"} ELSE ShimCtxs

ConcPriors ==
    { [c \in Ctxs |-> IF c \in dirty THEN TokensOf("wide", <<2>>, TRUE, FALSE) ELSE <<>>] :
        dirty \in {{}, ShimCtxs} }

InitConc ==
    /\ \E mc \in ConcModelConfigs, prior \in ConcPriors :
         ShimLoaded(mc, ShimCtxs,
                    ContextParams(NCtx, NCtx, NCtx, 4, 4, LLAMA_POOLING_TYPE_UNSPECIFIED,
                                  LLAMA_ATTENTION_TYPE_UNSPECIFIED, TRUE),
                    prior)
    /\ BindingUnloaded
    /\ CallersIdle
    /\ NormalizerOff

NextConc ==
    \E t \in Threads :
        \/ \E a \in ConcCalls, c \in ConcCtxs(t) : EmbedCall(t, [a EXCEPT !.ctx = c])
        \/ CallStep(t)

SpecConc == InitConc /\ [][NextConc]_vars

\* No model and no context exists.
NothingLoaded ==
    /\ mstate = [m \in Models |-> "none"]
    /\ mcfg = [m \in Models |-> NoModel]
    /\ mparams = [m \in Models |-> llama_model_default_params]
    /\ cstate = [c \in Ctxs |-> "none"]
    /\ ccfg = [c \in Ctxs |-> llama_context_default_params]
    /\ cmem = [c \in Ctxs |-> <<>>]
    /\ cthr = [c \in Ctxs |-> ThreadsOf(llama_context_default_params)]
    /\ cemb = [c \in Ctxs |-> NoEmbeddings]
    /\ nfree = [h \in Models \cup Ctxs |-> 0]
    /\ ptr = [h \in {"M"} \cup ShimCtxs |-> NULL]

\* The life of the handles: nothing is loaded at first.
InitLife ==
    /\ NothingLoaded
    /\ BindingUnloaded
    /\ CallersIdle
    /\ NormalizerOff

\* The parameters the lifecycle asks for.
LifeLoads == { <<0, TRUE, FALSE>>, <<99, FALSE, TRUE>> }

LifeContexts ==
    { <<LLAMA_POOLING_TYPE_UNSPECIFIED, LLAMA_ATTENTION_TYPE_UNSPECIFIED, TRUE>>,
      <<LLAMA_POOLING_TYPE_MEAN, LLAMA_ATTENTION_TYPE_NON_CAUSAL, TRUE>>,
      <<LLAMA_POOLING_TYPE_NONE, LLAMA_ATTENTION_TYPE_CAUSAL, FALSE>> }

NextLife ==
    \/ \E l \in LifeLoads : ModelLoad(l[1], l[2], l[3])
    \/ \E c \in ShimCtxs, x \in LifeContexts : ContextInit(c, x[1], x[2], x[3])
    \/ \E c \in ShimCtxs : ContextFree(c)
    \/ ModelFree
    \/ \E e \in BOOLEAN : BindingLoad(NCtx, e)
    \/ BindingResetModel
    \/ BindingResetContext
    \/ BindingDeleteState

SpecLife == InitLife /\ [][NextLife]_vars

\* The normalizer on its own: rm_l2_normalize and rm_copy_f32 applied to a
\* vector src of the embedding dimension, a count n and a destination buffer
\* of that dimension nothing was written to.  The vectors have integer
\* elements whose first n squares sum to a perfect square, so that sqrt is
\* exact.
NormDim == Len(EmbTable[1])

IsSquare(k) == ISqrt(k) * ISqrt(k) = k

NormInputs ==
    { x \in [1..NormDim -> -MaxAbs..MaxAbs] \X (-1..NormDim) :
        IsSquare(SumSquares(AsFloats(x[1]), x[2])[1]) }

InitNorm ==
    /\ NothingLoaded
    /\ BindingUnloaded
    /\ CallersIdle
    /\ \E x \in NormInputs, f \in {"l2", "copy"} :
         norm = [pc |-> "ready", fn |-> f, src |-> AsFloats(x[1]), n |-> x[2],
                 dst |-> [i \in 1..NormDim |-> Unwritten]]

\* Line 201: rm_l2_normalize(out, embd, n_embd).
L2Normalize ==
    /\ norm.pc = "ready" /\ norm.fn = "l2"
    /\ norm' = [norm EXCEPT !.pc = "done",
                            !.dst = rm_l2_normalize(norm.dst, norm.src, norm.n)]
    /\ UNCHANGED <<engineVars, lifeVars, callVars, bind>>

\* Line 203: rm_copy_f32(out, embd, n_embd).
CopyF32 ==
    /\ norm.pc = "ready" /\ norm.fn = "copy"
    /\ norm' = [norm EXCEPT !.pc = "done",
                            !.dst = rm_copy_f32(norm.dst, norm.src, norm.n)]
    /\ UNCHANGED <<engineVars, lifeVars, callVars, bind>>

NextNorm == L2Normalize \/ CopyF32

SpecNorm == InitNorm /\ [][NextNorm]_vars

\* The legacy binding's embedding calls on one loaded state: the caller
\* allocates params with a prompt and calls get_embeddings and
\* get_token_embeddings on them, any number of times.
BindPrompts == {<<>>, <<1>>}

BindTokenLists == {<<11>>, <<12, 11>>, <<99>>}

NextBind ==
    \/ \E e \in BOOLEAN : BindingLoad(BindCtx, e)
    \/ \E x \in BindPrompts : llama_allocate_params_for_embeddings(x)
    \/ get_embeddings
    \/ \E toks \in BindTokenLists : get_token_embeddings(toks)

SpecBind == InitLife /\ [][NextBind]_vars

\* ----------------------------------------------------------------- claims

InTrace(t, fn) == \E i \in 1..Len(trace[t]) : trace[t][i] = fn

Finished(t) == pc[t] = "done"

\* The caller's buffer as it was handed to the call.
InitialBuffer(a) ==
    IF a.out = NULL THEN <<>> ELSE [i \in 1..a.out_len |-> Unwritten]

\* The embedding a forward pass over nothing but the tokens of a's text leaves
\* in a's context, and the output buffer a call then returns.
FreshEmbedding(a) ==
    LET toks == TokensOf(mcfg[a.model].vocab, a.text, a.add_special, a.parse_special)
        e    == EmbeddingsOf(a.ctx, toks)
    IN  IF e.seq # NullVec THEN e.seq ELSE e.raw

FreshOutput(a) ==
    IF a.normalize = 2
    THEN rm_l2_normalize(InitialBuffer(a), FreshEmbedding(a), mcfg[a.model].n_embd)
    ELSE rm_copy_f32(InitialBuffer(a), FreshEmbedding(a), mcfg[a.model].n_embd)

\* C1: the output of every successful call is the one its own text, flags and
\* normalization give on a context that never ran a call before, whatever the
\* earlier calls on the context were and however they ended.
C1_OutputDependsOnOwnInput ==
    \A t \in Threads :
        (Finished(t) /\ ret[t] = 0) => out[t] = FreshOutput(args[t])

\* A successful call on a context whose memory still held the tokens of a
\* different earlier batch when the call began.
C1_Witness ==
    \E t \in Threads :
        /\ Finished(t) /\ ret[t] = 0
        /\ snap[t].mem # <<>>
        /\ snap[t].mem # loc[t].batch
        /\ snap[t].emb # cemb[args[t].ctx]

\* C2: a call that returns a non-zero code has written no element of out.
C2_NoOutputOnError ==
    \A t \in Threads :
        (Finished(t) /\ ret[t] # 0) => out[t] = InitialBuffer(args[t])

\* A call that failed after its forward pass had succeeded.
C2_Witness ==
    \E t \in Threads :
        /\ Finished(t) /\ ret[t] = -6
        /\ InTrace(t, "llama_decode")
        /\ Len(out[t]) > 0

\* The step a return code names when the codes are read as a taxonomy.
StepOfCode(code) ==
    CASE code = -1 -> "args"
      [] code = -2 -> "buffer"
      [] code = -3 -> "vocab"
      [] code = -4 -> "alloc"
      [] code = -5 -> "tokenize"
      [] code = -6 -> "embd"
      [] OTHER -> "decode"

\* C3 as stated: the return code of a failed call tells which step failed.
C3_CodeNamesStep ==
    \A t \in Threads :
        (Finished(t) /\ ret[t] # 0) => failStep[t] = StepOfCode(ret[t])

\* C3 amended: the codes -1 .. -6 of the steps other than the forward pass are
\* pairwise different and a failed forward pass returns the engine's non-zero
\* code unchanged, so a code outside -6 .. -1 always names the forward pass and
\* a code inside names its own step or a forward pass that returned it.
C3_FixedCodesDistinct ==
    \A t \in Threads :
        Finished(t) =>
            /\ (ret[t] = 0) <=> (failStep[t] = "none")
            /\ failStep[t] \notin {"none", "decode"} =>
                   /\ ret[t] \in -6..-1
                   /\ failStep[t] = StepOfCode(ret[t])
            /\ failStep[t] = "decode" => (ret[t] = loc[t].rc /\ ret[t] # 0)
            /\ ret[t] \notin -6..0 => failStep[t] = "decode"

\* A forward pass that failed with the code of a NULL argument.
C3_Witness ==
    \E t \in Threads :
        Finished(t) /\ failStep[t] = "decode" /\ ret[t] = -1

\* C4: a call whose out_len is below the embedding dimension ends with -2 and
\* has done no engine work: nothing but the dimension was asked of the engine
\* and the context is as it was when the call began.
C4_SmallBufferFailsFast ==
    \A t \in Threads :
        ( /\ pc[t] \notin {"idle", "check"}
          /\ ~NullArgument(args[t])
          /\ args[t].out_len < mcfg[args[t].model].n_embd )
        => /\ Finished(t) /\ ret[t] = -2
           /\ trace[t] = <<"llama_model_n_embd">>
           /\ CtxStateOf(args[t].ctx) = snap[t]
           /\ heap[t] = <<>> /\ tokCalls[t] = <<>>

\* Such a call on a context that held tokens and embeddings of earlier calls.
C4_Witness ==
    \E t \in Threads :
        /\ Finished(t) /\ ret[t] = -2
        /\ ~NullArgument(args[t])
        /\ args[t].out_len < mcfg[args[t].model].n_embd
        /\ snap[t].mem # <<>>
        /\ snap[t].emb # NoEmbeddings

LastTokCall(t) == tokCalls[t][Len(tokCalls[t])]

\* C5: the tokenizer is called at most twice; first with capacity
\* max(strlen(text) + 8, 16); a second time only after a negative result -k,
\* with a buffer of exactly k; a positive final count goes to the forward
\* pass unchanged and any other final count ends the call with -5.
C5_TokenizeRetriesOnce ==
    \A t \in Threads :
        LET k == tokCalls[t]
            n == Len(args[t].text) + 8
        IN  /\ Len(k) <= 2
            /\ Len(k) >= 1 => k[1].cap = (IF n < 16 THEN 16 ELSE n)
            /\ Len(k) = 2 => /\ k[1].result < 0
                             /\ k[2].cap = -k[1].result
                             /\ k[2].bufcap = -k[1].result
                             /\ k[2].buf # k[1].buf
            /\ (Len(k) = 1 /\ k[1].result < 0) =>
                   \/ pc[t] \in {"realloc", "retokenize"}
                   \/ (Finished(t) /\ ret[t] = -4)
            /\ InTrace(t, "llama_decode") =>
                   /\ LastTokCall(t).result > 0
                   /\ Len(loc[t].batch) = LastTokCall(t).result
            /\ pc[t] = "decode" => loc[t].n_tokens = LastTokCall(t).result
            /\ (Finished(t) /\ Len(k) >= 1 /\ LastTokCall(t).result <= 0
                  /\ ~(Len(k) = 1 /\ k[1].result < 0)) => ret[t] = -5
            /\ (Len(k) >= 1 /\ LastTokCall(t).result > 0) =>
                   \/ pc[t] \in {"counted", "decode", "embd", "output"}
                   \/ (Finished(t) /\ InTrace(t, "llama_decode"))

\* A call whose first tokenizer call asked for more room and whose retry
\* gave the tokens the forward pass ran on.
C5_Witness ==
    \E t \in Threads :
        /\ Finished(t) /\ ret[t] = 0
        /\ Len(tokCalls[t]) = 2
        /\ tokCalls[t][2].result = Len(loc[t].batch)

\* The call is past its thread reconfiguration (lines 145-148).
PastThreads(t) ==
    \/ pc[t] \in {"vocab", "alloc", "tokenize", "realloc", "retokenize",
                  "counted", "decode", "embd", "output"}
    \/ (Finished(t) /\ failStep[t] \notin {"args", "buffer"})

\* C6: past the thread reconfiguration, a requested count of zero or less has
\* left its setting of the context as it was and a positive one is in place.
C6_NonPositiveCountKeepsSetting ==
    \A t \in Threads :
        PastThreads(t) =>
            LET now == cthr[args[t].ctx]
                was == snap[t].thr
            IN  /\ args[t].n_threads <= 0 => now.n_threads = was.n_threads
                /\ args[t].n_threads_batch <= 0 =>
                       now.n_threads_batch = was.n_threads_batch
                /\ args[t].n_threads > 0 => now.n_threads = args[t].n_threads
                /\ args[t].n_threads_batch > 0 =>
                       now.n_threads_batch = args[t].n_threads_batch

\* C7: a model is live as long as a context created from it is, and no
\* handle has been released more than once.
C7_ModelOutlivesContexts ==
    /\ \A c \in Ctxs : cstate[c] = "live" => mstate[Parent(c)] = "live"
    /\ \A h \in Models \cup Ctxs : nfree[h] <= 1

\* The results of a call with arguments a that runs alone on its context,
\* for arguments that pass the checks and a model with a vocabulary: the
\* allocation fails, the forward pass fails or finds no room, or the call
\* writes the embedding of its own tokens.
AloneOutcomes(a) ==
    LET n      == Len(TokensOf(mcfg[a.model].vocab, a.text, a.add_special,
                               a.parse_special))
        fits   == n <= ccfg[a.ctx].n_ctx
        failed == {ErrBufferAllocationFailed}
                      \cup (IF fits THEN DecodeFailures ELSE {DecodeNoSlot})
    IN  { <<code, InitialBuffer(a)>> : code \in failed }
            \cup (IF fits THEN { <<0, FreshOutput(a)>> } ELSE {})

\* No other call was in flight on this call's context while it ran.
ContextUnshared(t) == args[t].ctx \notin met[t]

\* C8: a call whose context no other call used while it ran returns a code
\* and an output it can return when it runs alone, whatever the calls on the
\* other contexts of the model did meanwhile.
C8_DistinctContextsDoNotInterfere ==
    \A t \in Threads :
        (Finished(t) /\ ContextUnshared(t)) =>
            <<ret[t], out[t]>> \in AloneOutcomes(args[t])

\* Two calls on different contexts that were in flight together, both on a
\* context an earlier call had used, and both successful.
C8_Witness ==
    \A t \in Threads :
        /\ Finished(t) /\ ret[t] = 0
        /\ met[t] # {} /\ ContextUnshared(t)
        /\ snap[t].mem # <<>>

\* Calls that share a context do interfere: a successful call returns the
\* embedding of more than its own tokens.
SharedContextKeepsOutput ==
    \A t \in Threads :
        (Finished(t) /\ ret[t] = 0) => out[t] = FreshOutput(args[t])

\* The position of the first call of fn in the trace (0 when there is none).
FirstCall(t, fn) ==
    IF InTrace(t, fn)
    THEN CHOOSE i \in 1..Len(trace[t]) :
             trace[t][i] = fn /\ \A j \in 1..(i - 1) : trace[t][j] # fn
    ELSE 0

Count(t, fn) == Cardinality({i \in 1..Len(trace[t]) : trace[t][i] = fn})

\* C9 as stated: every call that submits a batch has cleared the context's
\* memory before, whatever llama_get_memory returned.
C9_ClearBeforeEveryForwardPass ==
    \A t \in Threads :
        (pc[t] = "decode" \/ InTrace(t, "llama_decode")) =>
            InTrace(t, "llama_memory_clear")

\* C9 amended: every call that submits a batch has asked for the context's
\* memory before and, whenever the context has one, has cleared it: the
\* memory is empty when the batch is submitted and one batch is submitted.
C9_ClearUnlessNoMemory ==
    \A t \in Threads :
        /\ (pc[t] = "decode" \/ InTrace(t, "llama_decode")) =>
               /\ InTrace(t, "llama_get_memory")
               /\ llama_get_memory(args[t].ctx) # NULL =>
                      /\ InTrace(t, "llama_memory_clear")
                      /\ InTrace(t, "llama_decode") =>
                             FirstCall(t, "llama_memory_clear") < FirstCall(t, "llama_decode")
               /\ Count(t, "llama_decode") <= 1
        /\ pc[t] = "decode" => cmem[args[t].ctx] = <<>>

\* A call about to submit its batch to a context that held tokens of an
\* earlier call when it began.
C9_Witness ==
    \E t \in Threads :
        /\ pc[t] = "decode"
        /\ snap[t].mem # <<>>
        /\ InTrace(t, "llama_memory_clear")

\* The rank of an engine function in the order of the steps.
Rank(fn) ==
    CASE fn = "llama_model_n_embd" -> 0
      [] fn = "llama_get_memory" -> 1
      [] fn = "llama_memory_clear" -> 2
      [] fn = "llama_set_n_threads" -> 3
      [] fn = "llama_model_get_vocab" -> 4
      [] fn = "llama_tokenize" -> 5
      [] fn = "llama_decode" -> 6
      [] fn = "llama_get_embeddings_seq" -> 7
      [] fn = "llama_get_embeddings" -> 8

\* C10: the engine is called in the order reset, threads, vocabulary,
\* tokenizer, forward pass, embeddings, and a step that fails ends the call
\* with its code before any later step: no tokenizer call without a
\* vocabulary, no forward pass without a positive token count, no embedding
\* accessor after a forward pass that returned non-zero, no output without an
\* embedding.
C10_StepsInOrderAndShortCircuit ==
    \A t \in Threads :
        /\ \A i \in 1..Len(trace[t]) : \A j \in 1..Len(trace[t]) :
               i < j => \/ Rank(trace[t][i]) < Rank(trace[t][j])
                        \/ (trace[t][i] = "llama_tokenize" /\ trace[t][j] = "llama_tokenize")
        /\ InTrace(t, "llama_model_get_vocab") => InTrace(t, "llama_get_memory")
        /\ (InTrace(t, "llama_model_get_vocab") /\ mcfg[args[t].model].vocab = "none") =>
               /\ Finished(t) /\ ret[t] = -3
               /\ ~InTrace(t, "llama_tokenize") /\ ~InTrace(t, "llama_decode")
        /\ InTrace(t, "llama_tokenize") => InTrace(t, "llama_model_get_vocab")
        /\ InTrace(t, "llama_decode") =>
               /\ InTrace(t, "llama_tokenize")
               /\ LastTokCall(t).result > 0
        /\ (Finished(t) /\ ret[t] \in {-4, -5}) =>
               /\ ~InTrace(t, "llama_decode")
               /\ ~InTrace(t, "llama_get_embeddings_seq")
        /\ (InTrace(t, "llama_decode") /\ loc[t].rc # 0) =>
               /\ Finished(t) /\ ret[t] = loc[t].rc
               /\ ~InTrace(t, "llama_get_embeddings_seq")
               /\ ~InTrace(t, "llama_get_embeddings")
        /\ InTrace(t, "llama_get_embeddings_seq") =>
               (InTrace(t, "llama_decode") /\ loc[t].rc = 0)
        /\ (InTrace(t, "llama_get_embeddings_seq") /\ loc[t].embd = NULL
               /\ pc[t] # "embd") =>
               /\ Finished(t) /\ ret[t] = -6
               /\ out[t] = InitialBuffer(args[t])
        /\ out[t] # InitialBuffer(args[t]) =>
               /\ Finished(t) /\ ret[t] = 0
               /\ InTrace(t, "llama_get_embeddings_seq")

\* A call ended by a forward pass that returned a non-zero code.
C10_Witness ==
    \E t \in Threads :
        /\ Finished(t) /\ InTrace(t, "llama_decode")
        /\ loc[t].rc # 0 /\ ret[t] = loc[t].rc

PastEmbeddings(t) ==
    InTrace(t, "llama_get_embeddings_seq") /\ pc[t] \in {"output", "done"}

\* The caller's buffer after vector v went through the normalization asked.
OutputOf(a, v) ==
    IF a.normalize = NormalizeL2
    THEN rm_l2_normalize(InitialBuffer(a), v, mcfg[a.model].n_embd)
    ELSE rm_copy_f32(InitialBuffer(a), v, mcfg[a.model].n_embd)

\* C12: once its forward pass has succeeded, a call takes the pooled embedding
\* of sequence 0 when the context has one and does not ask for the raw one;
\* it takes the raw one when only that is there; it ends with -6 exactly when
\* the context has neither; and the buffer of a successful call holds the
\* vector taken, normalized as asked.
C12_PooledThenRawThenUnavailable ==
    \A t \in Threads :
        PastEmbeddings(t) =>
            LET c      == args[t].ctx
                pooled == cemb[c].seq
                raw    == cemb[c].raw
            IN  /\ loc[t].rc = 0
                /\ pooled # NullVec =>
                       /\ loc[t].embd = "seq"
                       /\ ~InTrace(t, "llama_get_embeddings")
                       /\ Finished(t) => (ret[t] = 0 /\ out[t] = OutputOf(args[t], pooled))
                /\ (pooled = NullVec /\ raw # NullVec) =>
                       /\ loc[t].embd = "raw"
                       /\ InTrace(t, "llama_get_embeddings")
                       /\ Finished(t) => (ret[t] = 0 /\ out[t] = OutputOf(args[t], raw))
                /\ (pooled = NullVec /\ raw = NullVec) <=>
                       (Finished(t) /\ ret[t] = ErrEmbeddingsUnavailable)

\* A successful call on a context without pooling: the pooled accessor gave
\* nothing and the raw embedding, which differs from the pooled one of the
\* same tokens, was written.
C12_Witness ==
    \E t \in Threads :
        /\ Finished(t) /\ ret[t] = 0
        /\ loc[t].embd = "raw"
        /\ InTrace(t, "llama_get_embeddings")
        /\ out[t] # OutputOf(args[t], PooledOf(loc[t].batch))

\* The call submits or has submitted a batch to the engine.
ReachedForwardPass(t) == pc[t] = "decode" \/ InTrace(t, "llama_decode")

\* The number of tokens the call submits.
Submitted(t) ==
    IF InTrace(t, "llama_decode") THEN Len(loc[t].batch) ELSE loc[t].n_tokens

\* max(byte_length(text) + 8, 16), written out.
MarginCapacity(text) == IF Len(text) + 8 < 16 THEN 16 ELSE Len(text) + 8

\* C13 as stated: the token sequence submitted to the engine is no longer
\* than the initial capacity max(byte_length(text) + 8, 16).
C13_BatchWithinInitialCapacity ==
    \A t \in Threads :
        ReachedForwardPass(t) => Submitted(t) <= MarginCapacity(args[t].text)

\* C13 amended: the token sequence submitted is no longer than the buffer the
\* last tokenizer call was given: the initial capacity when the first call
\* succeeded, and else the size the first call asked for, in which case it is
\* longer than the initial capacity.
C13_BatchWithinLastCapacity ==
    \A t \in Threads :
        ReachedForwardPass(t) =>
            /\ Submitted(t) >= 1
            /\ Submitted(t) <= LastTokCall(t).cap
            /\ Submitted(t) <= LastTokCall(t).bufcap
            /\ Len(tokCalls[t]) = 1 => Submitted(t) <= MarginCapacity(args[t].text)
            /\ Len(tokCalls[t]) = 2 =>
                   /\ Submitted(t) <= -tokCalls[t][1].result
                   /\ Submitted(t) > MarginCapacity(args[t].text)

\* A forward pass over more tokens than the initial capacity, after a retry.
C13_Witness ==
    \E t \in Threads :
        /\ InTrace(t, "llama_decode")
        /\ Len(tokCalls[t]) = 2
        /\ Len(loc[t].batch) > MarginCapacity(args[t].text)

\* The elements 1..n of v, squared and summed.
SquaredNorm(v, n) == SumSquares(v, n)

\* w is v scaled by one positive factor on the elements 1..n.
ScaledBy(w, v, n) ==
    /\ \A i, j \in 1..n : RMul(w[i], v[j]) = RMul(v[i], w[j])
    /\ \A i \in 1..n : w[i][1] * v[i][1] >= 0 /\ (w[i][1] = 0 <=> v[i][1] = 0)

\* C14: the normalizer writes the first n elements of the buffer and no
\* other, nothing when n <= 0.  Under L2 an input whose squares sum to zero
\* is copied, and any other input is scaled by one positive factor to
\* Euclidean norm 1; [3, 4, 0, 0] gives [3/5, 4/5, 0, 0].  Under "none" the
\* input is copied.
C14_NormalizerContract ==
    norm.pc = "done" =>
        LET n == norm.n
            v == norm.src
            w == norm.dst
        IN  /\ Len(w) = NormDim
            /\ \A i \in 1..NormDim : i > n => w[i] = Unwritten
            /\ norm.fn = "copy" => \A i \in 1..n : w[i] = v[i]
            /\ norm.fn = "l2" =>
                   IF n <= 0 \/ SquaredNorm(v, n) = <<0, 1>>
                   THEN \A i \in 1..n : w[i] = v[i]
                   ELSE /\ ScaledBy(w, v, n)
                        /\ SquaredNorm(w, n) = <<1, 1>>
            /\ (norm.fn = "l2" /\ v = AsFloats(<<3, 4, 0, 0>>) /\ n = 4) =>
                   w = << <<3, 5>>, <<4, 5>>, <<0, 1>>, <<0, 1>> >>

\* The vector [3, 4, 0, 0] after L2 normalization of all its elements.
C14_Witness ==
    /\ norm.pc = "done" /\ norm.fn = "l2" /\ norm.n = 4
    /\ norm.src = AsFloats(<<3, 4, 0, 0>>)
    /\ norm.dst = << <<3, 5>>, <<4, 5>>, <<0, 1>>, <<0, 1>> >>

\* The token buffer the call holds in `tokens` is allocated.
HoldsLiveBuffer(t) ==
    /\ loc[t].tokens \in 1..Len(heap[t])
    /\ heap[t][loc[t].tokens].live

\* C15: a call allocates at most two token buffers, one at a time; each is
\* freed once, and all are freed when the call has returned and already when
\* it asks for the embeddings; the tokenizer and the forward pass are given a
\* buffer that is allocated; the buffer of the retry has the size the first
\* tokenizer call asked for.
C15_TokenBuffersFreedOnce ==
    \A t \in Threads :
        LET h == heap[t]
        IN  /\ Len(h) <= 2
            /\ \A b \in 1..Len(h) : h[b].frees <= 1 /\ (h[b].live <=> h[b].frees = 0)
            /\ Cardinality({b \in 1..Len(h) : h[b].live}) <= 1
            /\ (Finished(t) \/ pc[t] \in {"embd", "output"}) =>
                   \A b \in 1..Len(h) : h[b].frees = 1
            /\ pc[t] \in {"tokenize", "retokenize", "counted", "decode"} =>
                   HoldsLiveBuffer(t)
            /\ \A i \in 1..Len(tokCalls[t]) :
                   tokCalls[t][i].live /\ tokCalls[t][i].cap <= tokCalls[t][i].bufcap
            /\ InTrace(t, "llama_decode") => Len(loc[t].batch) <= h[Len(h)].cap
            /\ Len(h) = 2 =>
                   /\ Len(tokCalls[t]) >= 1 /\ tokCalls[t][1].result < 0
                   /\ h[2].cap = -tokCalls[t][1].result
                   /\ Len(tokCalls[t]) = 2 => tokCalls[t][2].buf = 2

\* A successful call that went through the retry: two buffers, both freed.
C15_Witness ==
    \E t \in Threads :
        /\ Finished(t) /\ ret[t] = 0
        /\ Len(heap[t]) = 2
        /\ \A b \in 1..2 : heap[t][b].frees = 1

\* The text the last legacy call was asked to embed: the pieces of its tokens
\* for get_token_embeddings, the prompt of its params for get_embeddings.
SuppliedText(b) ==
    IF b.fn = "get_token_embeddings"
    THEN AppendPieces(llama_model_get_vocab(bst.model), <<>>, b.tokens).prompt
    ELSE b.entry

\* What a forward pass over the tokens of `text` alone gives, normalized.
LegacyFresh(text) ==
    common_embd_normalize(
        LegacyVector(EmbeddingsOf(bst.context, common_tokenize(bst.context, text))),
        llama_model_n_embd(bst.model))

\* C16: a legacy embedding call that returns 0 has run a forward pass, has
\* embedded the text of the tokens or prompt it was given and nothing an
\* earlier call left in the params, and returns the embedding of that text
\* alone.
C16_LegacyResultIsItsOwn ==
    (bpc = "loaded" /\ bind.fn # "none" /\ bind.ret = 0) =>
        /\ bind.decoded
        /\ bind.text = SuppliedText(bind)
        /\ bind.res = LegacyFresh(SuppliedText(bind))

====
